---- MODULE Spec2Model ----
(***************************************************************************)
(* Model of the pdf-inverter engine (src/lib/pdf-processor.ts) and of the  *)
(* POST handler that drives it (src/app/api/process-pdf/route.ts).         *)
(*                                                                         *)
(* Numbers: option colours are kept in hundredths (0.15 is 15); every      *)
(* other non-integer quantity (opacity, derived colour, line width) is an  *)
(* exact fraction <<numerator, denominator>>.  Page sizes are chosen so    *)
(* that every coordinate the code computes is an integer.                  *)
(***************************************************************************)
EXTENDS Integers, Sequences, FiniteSets, TLC

\* ------------------------------------------------------------------ bounds
MaxPages == 2       \* largest page count of a document that processPDF is run on
MaxTime  == 1       \* the wall clock runs from 0 to MaxTime
MaxBytes == 1       \* serialized output lengths range over 1..MaxBytes
MaxRoutePages == 1  \* largest page count of a document uploaded to the handler

\* ------------------------------------------------------- program constants
PageCeiling == 1000

Runs      == {1, 2}      \* invocations of processPDF
Instances == {1, 2}      \* PDFProcessor objects
Requests  == {1, 2}      \* POST requests

\* undefined: no processor, no font, no result yet.  An optional property whose
\* value is undefined is modelled as a record without that field.
None == [none |-> TRUE]

Frac(n, d) == <<n, d>>
FracEq(a, b) == a[1] * b[2] = b[1] * a[2]

\* --------------------------------------------------------------- options
RGBh(r, g, b) == [r |-> r, g |-> g, b |-> b]

\* The literal the constructor spreads caller options over.
CtorDefaults ==
  [ inversionMode   |-> "true-inversion",
    backgroundColor |-> RGBh(20, 20, 20),
    textColor       |-> RGBh(90, 90, 90),
    preserveImages  |-> TRUE,
    addWatermark    |-> TRUE,
    gridPattern     |-> FALSE ]

\* { ...defaults, ...partial }: the fields the partial record has win.
Spread(base, partial) ==
  [k \in DOMAIN base |-> IF k \in DOMAIN partial THEN partial[k] ELSE base[k]]

Constructor(partial) == Spread(CtorDefaults, partial)

baseOptions ==
  [ inversionMode   |-> "true-inversion",
    backgroundColor |-> RGBh(20, 20, 20),
    textColor       |-> RGBh(90, 90, 90),
    preserveImages  |-> TRUE,
    addWatermark    |-> TRUE,
    gridPattern     |-> FALSE ]

\* getPresetOptions without printing's addWatermark override.
getPresetOptions_PrintingWatermark(mode) ==
  CASE mode = "reading" ->
         Spread(baseOptions,
                [ backgroundColor |-> RGBh(15, 15, 15),
                  textColor       |-> RGBh(95, 95, 95),
                  inversionMode   |-> "true-inversion" ])
    [] mode = "printing" ->
         Spread(baseOptions,
                [ backgroundColor |-> RGBh(25, 25, 25),
                  textColor       |-> RGBh(85, 85, 85),
                  inversionMode   |-> "true-inversion" ])
    [] mode = "presentation" ->
         Spread(baseOptions,
                [ backgroundColor |-> RGBh(15, 15, 20),
                  textColor       |-> RGBh(90, 90, 95),
                  gridPattern     |-> TRUE,
                  inversionMode   |-> "true-inversion" ])
    [] OTHER -> baseOptions

\* getPresetOptions whose default branch falls through to the reading preset.
getPresetOptions_DefaultReading(mode) ==
  CASE mode = "printing" ->
         Spread(baseOptions,
                [ backgroundColor |-> RGBh(25, 25, 25),
                  textColor       |-> RGBh(85, 85, 85),
                  addWatermark    |-> FALSE,
                  inversionMode   |-> "true-inversion" ])
    [] mode = "presentation" ->
         Spread(baseOptions,
                [ backgroundColor |-> RGBh(15, 15, 20),
                  textColor       |-> RGBh(90, 90, 95),
                  gridPattern     |-> TRUE,
                  inversionMode   |-> "true-inversion" ])
    [] OTHER ->
         Spread(baseOptions,
                [ backgroundColor |-> RGBh(15, 15, 15),
                  textColor       |-> RGBh(95, 95, 95),
                  inversionMode   |-> "true-inversion" ])

getPresetOptions(mode) ==
  CASE mode = "reading" ->
         Spread(baseOptions,
                [ backgroundColor |-> RGBh(15, 15, 15),
                  textColor       |-> RGBh(95, 95, 95),
                  inversionMode   |-> "true-inversion" ])
    [] mode = "printing" ->
         Spread(baseOptions,
                [ backgroundColor |-> RGBh(25, 25, 25),
                  textColor       |-> RGBh(85, 85, 85),
                  addWatermark    |-> FALSE,
                  inversionMode   |-> "true-inversion" ])
    [] mode = "presentation" ->
         Spread(baseOptions,
                [ backgroundColor |-> RGBh(15, 15, 20),
                  textColor       |-> RGBh(90, 90, 95),
                  gridPattern     |-> TRUE,
                  inversionMode   |-> "true-inversion" ])
    [] OTHER -> baseOptions

\* ------------------------------------------------------- drawing operations
\* pdf-lib's rgb(): a colour of three exact fractions.
rgb(r, g, b) == <<r, g, b>>
One == Frac(1, 1)
\* An option colour (hundredths) as the rgb() the code builds from it.
rgbOf(c) == rgb(Frac(c.r, 100), Frac(c.g, 100), Frac(c.b, 100))
\* rgb(c.r * k, c.g * k, c.b * k) for k = tenths / 10.
rgbScaled(c, tenths) ==
  rgb(Frac(c.r * tenths, 1000), Frac(c.g * tenths, 1000), Frac(c.b * tenths, 1000))

drawRectangle(x, y, width, height, color, opacity) ==
  [ op |-> "rectangle", x |-> x, y |-> y, width |-> width, height |-> height,
    color |-> color, opacity |-> opacity ]

drawBorder(x, y, width, height, borderColor, borderWidth, opacity) ==
  [ op |-> "rectangle", x |-> x, y |-> y, width |-> width, height |-> height,
    borderColor |-> borderColor, borderWidth |-> borderWidth, opacity |-> opacity ]

drawLine(start, end, thickness, color, opacity) ==
  [ op |-> "line", start |-> start, end |-> end, thickness |-> thickness,
    color |-> color, opacity |-> opacity ]

drawText(text, x, y, size, font, color, opacity) ==
  [ op |-> "text", text |-> text, x |-> x, y |-> y, size |-> size,
    font |-> font, color |-> color, opacity |-> opacity ]

\* The page label built from the 0-based loop index instead of i + 1.
PageLabel_ZeroBased(pageNumber, totalPages) ==
  ToString(pageNumber - 1) \o "/" \o ToString(totalPages)

\* `${pageNumber}/${totalPages}`
PageLabel(pageNumber, totalPages) == ToString(pageNumber) \o "/" \o ToString(totalPages)
\* `Processed: ${timestamp}`, the timestamp being the clock's reading
StampLabel(t) == "Processed: " \o ToString(t)

segments == 6
patternSpacing == 30

\* addPageDecorations with the border drawn inside the addWatermark branch.
addPageDecorations_BorderInWatermark(opts, font, width, height, pageNumber, totalPages, t) ==
  IF font = None THEN <<>>
  ELSE IF opts.addWatermark
  THEN << drawText("DARK MODE", width - 100, height - 20, 8, font,
                   rgbScaled(opts.textColor, 7), Frac(6, 10)),
          drawText(PageLabel(pageNumber, totalPages), 20, height - 20, 8, font,
                   rgbScaled(opts.textColor, 6), Frac(6, 10)),
          drawText(StampLabel(t), 20, 15, 6, font,
                   rgbScaled(opts.textColor, 5), Frac(4, 10)),
          drawBorder(2, 2, width - 4, height - 4,
                     rgbScaled(opts.textColor, 3), Frac(5, 10), Frac(3, 10)) >>
  ELSE <<>>

\* addPageDecorations: nothing without a font; the three labels only with
\* addWatermark; the border whenever a font is set.
addPageDecorations(opts, font, width, height, pageNumber, totalPages, t) ==
  IF font = None THEN <<>>
  ELSE (IF opts.addWatermark
        THEN << drawText("DARK MODE", width - 100, height - 20, 8, font,
                         rgbScaled(opts.textColor, 7), Frac(6, 10)),
                drawText(PageLabel(pageNumber, totalPages), 20, height - 20, 8, font,
                         rgbScaled(opts.textColor, 6), Frac(6, 10)),
                drawText(StampLabel(t), 20, 15, 6, font,
                         rgbScaled(opts.textColor, 5), Frac(4, 10)) >>
        ELSE <<>>)
       \o << drawBorder(2, 2, width - 4, height - 4,
                        rgbScaled(opts.textColor, 3), Frac(5, 10), Frac(3, 10)) >>

\* for (x = -height; x < width + height; x += patternSpacing) drawLine(...)
addTexturePattern(width, height) ==
  LET n == IF width + 2 * height <= 0 THEN 0
           ELSE (width + 2 * height + patternSpacing - 1) \div patternSpacing
  IN  [j \in 1..n |->
         LET x == (j - 1) * patternSpacing - height
         IN  drawLine(<<x, 0>>, <<x + height, height>>, Frac(2, 10),
                      rgb(Frac(1, 10), Frac(1, 10), Frac(1, 10)), Frac(1, 10))]

\* The three areas placed as if y were measured from the top edge: the wide
\* one low on the page, the two narrow ones above it.
detectPotentialImageAreas_FromTop(pageWidth, pageHeight) ==
  << [ x |-> Frac(pageWidth * 10, 100), y |-> Frac(pageHeight * 10, 100),
       width |-> Frac(pageWidth * 80, 100), height |-> Frac(pageHeight * 30, 100) ],
     [ x |-> Frac(pageWidth * 5, 100), y |-> Frac(pageHeight * 50, 100),
       width |-> Frac(pageWidth * 40, 100), height |-> Frac(pageHeight * 40, 100) ],
     [ x |-> Frac(pageWidth * 55, 100), y |-> Frac(pageHeight * 50, 100),
       width |-> Frac(pageWidth * 40, 100), height |-> Frac(pageHeight * 40, 100) ] >>

\* The three areas, as exact fractions: pageWidth * 0.1 is pageWidth * 10 / 100.
detectPotentialImageAreas(pageWidth, pageHeight) ==
  << [ x |-> Frac(pageWidth * 10, 100), y |-> Frac(pageHeight * 60, 100),
       width |-> Frac(pageWidth * 80, 100), height |-> Frac(pageHeight * 30, 100) ],
     [ x |-> Frac(pageWidth * 5, 100), y |-> Frac(pageHeight * 10, 100),
       width |-> Frac(pageWidth * 40, 100), height |-> Frac(pageHeight * 40, 100) ],
     [ x |-> Frac(pageWidth * 55, 100), y |-> Frac(pageHeight * 10, 100),
       width |-> Frac(pageWidth * 40, 100), height |-> Frac(pageHeight * 40, 100) ] >>

applyOverlayInversion(opts, font, width, height, pageNumber, totalPages, t) ==
  << drawRectangle(0, 0, width, height, rgbOf(opts.backgroundColor), Frac(8, 10)) >>
  \o addPageDecorations(opts, font, width, height, pageNumber, totalPages, t)

\* applyAdvancedInversion with the texture drawn after the decorations.
applyAdvancedInversion_TextureLast(opts, font, width, height, pageNumber, totalPages, t) ==
  LET segmentHeight == Frac(height, segments)
  IN  [j \in 1..segments |->
         drawRectangle(0, Frac((j - 1) * segmentHeight[1], segmentHeight[2]),
                       width, segmentHeight,
                       rgbOf(opts.backgroundColor),
                       Frac(75 * segments + 20 * (j - 1), 100 * segments))]
      \o addPageDecorations(opts, font, width, height, pageNumber, totalPages, t)
      \o (IF opts.gridPattern THEN addTexturePattern(width, height) ELSE <<>>)

\* The bands laid from the top of the page downwards: band i ends at
\* height - i * segmentHeight.
applyAdvancedInversion_TopDown(opts, font, width, height, pageNumber, totalPages, t) ==
  LET segmentHeight == Frac(height, segments)
  IN  [j \in 1..segments |->
         drawRectangle(0, Frac((segments - j) * segmentHeight[1], segmentHeight[2]),
                       width, segmentHeight,
                       rgbOf(opts.backgroundColor),
                       Frac(75 * segments + 20 * (j - 1), 100 * segments))]
      \o (IF opts.gridPattern THEN addTexturePattern(width, height) ELSE <<>>)
      \o addPageDecorations(opts, font, width, height, pageNumber, totalPages, t)

\* Band i (0-based) starts at y = i * segmentHeight, segmentHeight being the
\* exact fraction height / segments; its opacity is
\* 0.75 + (i / segments) * 0.2 = (75 * segments + 20 i) / (100 * segments).
applyAdvancedInversion(opts, font, width, height, pageNumber, totalPages, t) ==
  LET segmentHeight == Frac(height, segments)
  IN  [j \in 1..segments |->
         drawRectangle(0, Frac((j - 1) * segmentHeight[1], segmentHeight[2]),
                       width, segmentHeight,
                       rgbOf(opts.backgroundColor),
                       Frac(75 * segments + 20 * (j - 1), 100 * segments))]
      \o (IF opts.gridPattern THEN addTexturePattern(width, height) ELSE <<>>)
      \o addPageDecorations(opts, font, width, height, pageNumber, totalPages, t)

applyPreserveImagesInversion(opts, font, width, height, pageNumber, totalPages, t) ==
  LET imageAreas == detectPotentialImageAreas(width, height)
  IN  << drawRectangle(0, 0, width, height, rgbOf(opts.backgroundColor), Frac(7, 10)) >>
      \o [j \in 1..Len(imageAreas) |->
            drawRectangle(imageAreas[j].x, imageAreas[j].y,
                          imageAreas[j].width, imageAreas[j].height,
                          rgb(One, One, One), Frac(15, 100))]
      \o addPageDecorations(opts, font, width, height, pageNumber, totalPages, t)

\* applyTrueInversion honouring gridPattern as the advanced strategy does.
applyTrueInversion_Textured(opts, font, width, height, pageNumber, totalPages, t) ==
  << drawRectangle(0, 0, width, height, rgb(One, One, One), One),
     drawRectangle(0, 0, width, height,
                   rgb(Frac(5, 10), Frac(5, 10), Frac(5, 10)), One),
     drawRectangle(0, 0, width, height, rgb(One, One, One), Frac(5, 10)) >>
  \o (IF opts.gridPattern THEN addTexturePattern(width, height) ELSE <<>>)
  \o addPageDecorations(opts, font, width, height, pageNumber, totalPages, t)

\* applyTrueInversion whose last overlay takes the run's backgroundColor.
applyTrueInversion_Background(opts, font, width, height, pageNumber, totalPages, t) ==
  << drawRectangle(0, 0, width, height, rgb(One, One, One), One),
     drawRectangle(0, 0, width, height,
                   rgb(Frac(5, 10), Frac(5, 10), Frac(5, 10)), One),
     drawRectangle(0, 0, width, height, rgbOf(opts.backgroundColor), Frac(5, 10)) >>
  \o addPageDecorations(opts, font, width, height, pageNumber, totalPages, t)

applyTrueInversion(opts, font, width, height, pageNumber, totalPages, t) ==
  << drawRectangle(0, 0, width, height, rgb(One, One, One), One),
     drawRectangle(0, 0, width, height,
                   rgb(Frac(5, 10), Frac(5, 10), Frac(5, 10)), One),
     drawRectangle(0, 0, width, height, rgb(One, One, One), Frac(5, 10)) >>
  \o addPageDecorations(opts, font, width, height, pageNumber, totalPages, t)

\* processPage: the drawing operations one complete transform of a page issues,
\* in order.
processPage(opts, font, width, height, pageNumber, totalPages, t) ==
  CASE opts.inversionMode = "overlay" ->
         applyOverlayInversion(opts, font, width, height, pageNumber, totalPages, t)
    [] opts.inversionMode = "advanced" ->
         applyAdvancedInversion(opts, font, width, height, pageNumber, totalPages, t)
    [] opts.inversionMode = "preserve-images" ->
         applyPreserveImagesInversion(opts, font, width, height, pageNumber, totalPages, t)
    [] opts.inversionMode = "true-inversion" ->
         applyTrueInversion(opts, font, width, height, pageNumber, totalPages, t)
    [] OTHER ->
         applyOverlayInversion(opts, font, width, height, pageNumber, totalPages, t)

\* ----------------------------------------------------------------- inputs
\* A byte stream handed to the engine: whether pdf-lib can parse it, the pages
\* it then has, and its length in bytes.
PageSize == [width |-> 40, height |-> 30]

Garbage(n) == [parses |-> FALSE, pageCount |-> 0, byteLength |-> n]
\* A one-page document whose page has the given size.
SizedDocument(w, h) ==
  [parses |-> TRUE, pageCount |-> 1, byteLength |-> 11, pageSize |-> [width |-> w, height |-> h]]
Document(n) == [parses |-> TRUE, pageCount |-> n, byteLength |-> 10 + n]

\* Documents the engine is run on, and the larger set validatePDF is asked about.
RunInputs == {Garbage(0), Garbage(7)} \cup {Document(n) : n \in 0..MaxPages}
Inputs == RunInputs
          \cup {Document(n) : n \in {PageCeiling - 1, PageCeiling, PageCeiling + 1}}

\* A value thrown by pdf-lib: an Error with its message, or some other value.
Err(msg) == [isError |-> TRUE, message |-> msg]
NonError == [isError |-> FALSE, message |-> "thrown value"]
Thrown == {Err("pdf-lib error"), NonError}
PageThrown == {Err("draw failed")}
SaveThrown == {Err("save failed")}

\* The pages of a freshly loaded document: page k holds the content it came with.
LoadedPages(inp) ==
  LET size == IF "pageSize" \in DOMAIN inp THEN inp.pageSize ELSE PageSize
  IN  [k \in 1..inp.pageCount |->
         [width |-> size.width, height |-> size.height,
          ops |-> << [op |-> "content", page |-> k] >>]]

\* validatePDF with the ceiling test written >=: 1000 pages are refused.
validatePDF_CeilingOff(inp, e) ==
  IF ~inp.parses
  THEN [valid |-> FALSE,
        error |-> IF e.isError THEN e.message ELSE "Invalid PDF format"]
  ELSE IF inp.pageCount = 0
  THEN [valid |-> FALSE, error |-> "PDF contains no pages"]
  ELSE IF inp.pageCount >= PageCeiling
  THEN [valid |-> FALSE, error |-> "PDF has too many pages (maximum 1000 supported)"]
  ELSE [valid |-> TRUE, pageCount |-> inp.pageCount]

\* validatePDF without the page ceiling.
validatePDF_NoCeiling(inp, e) ==
  IF ~inp.parses
  THEN [valid |-> FALSE,
        error |-> IF e.isError THEN e.message ELSE "Invalid PDF format"]
  ELSE IF inp.pageCount = 0
  THEN [valid |-> FALSE, error |-> "PDF contains no pages"]
  ELSE [valid |-> TRUE, pageCount |-> inp.pageCount]

\* validatePDF whose catch returns error.message unguarded: a thrown value
\* that is no Error leaves the error undefined.
validatePDF_NoFallback(inp, e) ==
  IF ~inp.parses
  THEN (IF e.isError THEN [valid |-> FALSE, error |-> e.message]
        ELSE [valid |-> FALSE])
  ELSE IF inp.pageCount = 0
  THEN [valid |-> FALSE, error |-> "PDF contains no pages"]
  ELSE IF inp.pageCount > PageCeiling
  THEN [valid |-> FALSE, error |-> "PDF has too many pages (maximum 1000 supported)"]
  ELSE [valid |-> TRUE, pageCount |-> inp.pageCount]

\* ------------------------------------------------------------ validatePDF
\* `e` is what PDFDocument.load throws when the bytes do not parse.
validatePDF(inp, e) ==
  IF ~inp.parses
  THEN [valid |-> FALSE,
        error |-> IF e.isError THEN e.message ELSE "Invalid PDF format"]
  ELSE IF inp.pageCount = 0
  THEN [valid |-> FALSE, error |-> "PDF contains no pages"]
  ELSE IF inp.pageCount > PageCeiling
  THEN [valid |-> FALSE, error |-> "PDF has too many pages (maximum 1000 supported)"]
  ELSE [valid |-> TRUE, pageCount |-> inp.pageCount]

\* ------------------------------------------------------------- temp files
\* path.join(tempDir, `input_${Date.now()}.pdf`) and its output twin.
InputPathAt(t)  == "input_" \o ToString(t) \o ".pdf"
OutputPathAt(t) == "output_" \o ToString(t) \o ".pdf"
TempPaths == {InputPathAt(t) : t \in 0..MaxTime} \cup {OutputPathAt(t) : t \in 0..MaxTime}

\* ------------------------------------------------------------------ state
VARIABLES
  now,           \* the wall clock (Date.now(), new Date())
  upload,         \* the byte stream under test
  validation,    \* the last validatePDF call: its input and what it returned
  options,       \* options[p]: this.options of processor p (None: not constructed)
  font,          \* font[p]: this.font of processor p (None: undefined)
  preset,        \* history: the mode name whose preset p was constructed with
                 \* ("-": constructed without a preset)
  pc,            \* pc[r]: where run r of processPDF stands
  instOf,        \* instOf[r]: the processor run r was called on (0: not called)
  input,         \* input[r]: the bytes run r was called with
  startTime,     \* startTime[r]
  originalSize,  \* originalSize[r]
  errors,        \* errors[r]: the run's local error list
  pages,         \* pages[r]: the pages of the run's loaded document
  pageCount,     \* pageCount[r]
  i,             \* i[r]: the page loop's index (0-based)
  result,        \* result[r]: what the run returned (None: not yet)
  attempted,     \* history: the page numbers processPage was called with, in order
  faults,        \* history: the page numbers whose transform threw
  fatal,         \* history: the step at which the run failed fatally ("no": none)
  \* the POST handler, per request q (its fallback run is run q on processor q)
  rpc,           \* rpc[q]: where the handler stands
  req,           \* req[q]: the request (None: none yet)
  resp,          \* resp[q]: the response sent (None: not yet)
  validationOf,  \* validationOf[q]: the handler's `validation`
  routeStart,    \* routeStart[q]: the handler's startTime
  inputPath,     \* inputPath[q], outputPath[q]: processPDFWithPython's temp paths
  outputPath,
  stdout,        \* stdout[q]: what the script printed
  outputBuffer,  \* outputBuffer[q]: the bytes read back from the output file
  pythonResult,  \* pythonResult[q]: what processPDFWithPython returned
  files,         \* the temp directory: files[path] is the file's content, or None
  pyCalls,       \* history: calls of processPDFWithPython by request q
  jsCalls        \* history: calls of processPDF by request q

procVars == <<options, font, preset>>
runVars  == <<pc, instOf, input, startTime, originalSize, errors, pages, pageCount,
              i, result, attempted, faults, fatal>>
harnessVars == <<upload, validation>>
routeVars == <<rpc, req, resp, validationOf, routeStart, inputPath, outputPath,
               stdout, outputBuffer, pythonResult, files, pyCalls, jsCalls>>
vars     == <<now, harnessVars, procVars, runVars, routeVars>>

\* No processor constructed, no run called, no request received.
AtRest ==
  /\ now = 0
  /\ validation = None
  /\ options = [p \in Instances |-> None]
  /\ font = [p \in Instances |-> None]
  /\ preset = [p \in Instances |-> "-"]
  /\ pc = [r \in Runs |-> "idle"]
  /\ instOf = [r \in Runs |-> 0]
  /\ input = [r \in Runs |-> None]
  /\ startTime = [r \in Runs |-> 0]
  /\ originalSize = [r \in Runs |-> 0]
  /\ errors = [r \in Runs |-> <<>>]
  /\ pages = [r \in Runs |-> <<>>]
  /\ pageCount = [r \in Runs |-> 0]
  /\ i = [r \in Runs |-> 0]
  /\ result = [r \in Runs |-> None]
  /\ attempted = [r \in Runs |-> <<>>]
  /\ faults = [r \in Runs |-> {}]
  /\ fatal = [r \in Runs |-> "no"]
  /\ rpc = [q \in Requests |-> "idle"]
  /\ resp = [q \in Requests |-> None]
  /\ validationOf = [q \in Requests |-> None]
  /\ routeStart = [q \in Requests |-> 0]
  /\ inputPath = [q \in Requests |-> ""]
  /\ outputPath = [q \in Requests |-> ""]
  /\ stdout = [q \in Requests |-> None]
  /\ outputBuffer = [q \in Requests |-> None]
  /\ pythonResult = [q \in Requests |-> None]
  /\ files = [f \in TempPaths |-> None]
  /\ pyCalls = [q \in Requests |-> 0]
  /\ jsCalls = [q \in Requests |-> 0]

Init ==
  /\ AtRest
  /\ upload \in Inputs
  /\ req = [q \in Requests |-> None]

\* The clock advances on its own.
Tick ==
  /\ now < MaxTime
  /\ now' = now + 1
  /\ UNCHANGED <<harnessVars, procVars, runVars, routeVars>>

\* A call of the static validatePDF.
Validate(inp, e) ==
  /\ validation' = [input |-> inp, result |-> validatePDF(inp, e)]
  /\ UNCHANGED <<now, upload, procVars, runVars, routeVars>>

\* The mode names a caller passes; the last three are not preset names.
ModeNames == {"reading", "printing", "presentation", "xyz", "READING", ""}

\* How processors are constructed: with no options at all or a partial record
\* selecting another strategy (mode "-"), or with the preset of a mode name.
Constructions ==
  { [mode |-> "-", opts |-> o] :
      o \in { Constructor(<<>>),
              Constructor([inversionMode |-> "overlay"]),
              Constructor([inversionMode |-> "advanced"]),
              Constructor([inversionMode |-> "advanced", gridPattern |-> TRUE,
                           addWatermark |-> FALSE]),
              Constructor([inversionMode |-> "preserve-images",
                           addWatermark |-> FALSE]) } }
  \cup { [mode |-> m, opts |-> Constructor(getPresetOptions(m))] : m \in ModeNames }

\* new PDFProcessor(options)
Construct(p, c) ==
  /\ options[p] = None
  /\ options' = [options EXCEPT ![p] = c.opts]
  /\ font' = [font EXCEPT ![p] = None]
  /\ preset' = [preset EXCEPT ![p] = c.mode]
  /\ UNCHANGED <<now, harnessVars, routeVars, runVars>>

\* ------------------------------------------------------------- processPDF
\* The catch block's result: no pdfBytes, one error.
CatchResult(origSize, start, e, t) ==
  [ success        |-> FALSE,
    pageCount      |-> 0,
    originalSize   |-> origSize,
    processedSize  |-> 0,
    processingTime |-> t - start,
    errors         |-> << IF e.isError THEN e.message ELSE "Unknown processing error" >> ]

\* The success result counting only the pages that were transformed.
SuccessResult_CountTransformed(out, count, origSize, start, errs, t) ==
  LET r == [ success        |-> TRUE,
             pdfBytes       |-> out,
             pageCount      |-> count - Len(errs),
             originalSize   |-> origSize,
             processedSize  |-> out.length,
             processingTime |-> t - start ]
  IN  IF Len(errs) > 0
      THEN [k \in DOMAIN r \cup {"errors"} |-> IF k = "errors" THEN errs ELSE r[k]]
      ELSE r

\* The result returned after save(): errors only when there are any.
SuccessResult(out, count, origSize, start, errs, t) ==
  LET r == [ success        |-> TRUE,
             pdfBytes       |-> out,
             pageCount      |-> count,
             originalSize   |-> origSize,
             processedSize  |-> out.length,
             processingTime |-> t - start ]
  IN  IF Len(errs) > 0
      THEN [k \in DOMAIN r \cup {"errors"} |-> IF k = "errors" THEN errs ELSE r[k]]
      ELSE r

\* The page error message naming the loop index instead of i + 1.
PageErrorMsg_ZeroBased(idx, e) ==
  "Failed to process page " \o ToString(idx) \o ": "
  \o (IF e.isError THEN "Error: " \o e.message ELSE e.message)

\* `Failed to process page ${i + 1}: ${pageError}`
PageErrorMsg(idx, e) ==
  "Failed to process page " \o ToString(idx + 1) \o ": "
  \o (IF e.isError THEN "Error: " \o e.message ELSE e.message)

\* The catch block pushing the fatal error onto the run's error list.
Fail_AppendToErrors(r, e, step) ==
  /\ result' = [result EXCEPT ![r] =
       [CatchResult(originalSize[r], startTime[r], e, now) EXCEPT
          !.errors = errors[r] \o @]]
  /\ pc' = [pc EXCEPT ![r] = "done"]
  /\ fatal' = [fatal EXCEPT ![r] = step]

\* The run ends in the catch block with `e` thrown at `step`.
Fail(r, e, step) ==
  /\ result' = [result EXCEPT ![r] = CatchResult(originalSize[r], startTime[r], e, now)]
  /\ pc' = [pc EXCEPT ![r] = "done"]
  /\ fatal' = [fatal EXCEPT ![r] = step]

\* processPDF(pdfBytes) is called on processor p: lines 41-43.
Call(r, p, inp) ==
  /\ pc[r] = "idle"
  /\ options[p] # None
  /\ pc' = [pc EXCEPT ![r] = "load"]
  /\ instOf' = [instOf EXCEPT ![r] = p]
  /\ input' = [input EXCEPT ![r] = inp]
  /\ startTime' = [startTime EXCEPT ![r] = now]
  /\ originalSize' = [originalSize EXCEPT ![r] = inp.byteLength]
  /\ errors' = [errors EXCEPT ![r] = <<>>]
  /\ UNCHANGED <<now, harnessVars, routeVars, procVars, pages, pageCount, i, result,
                 attempted, faults, fatal>>

\* The load step with validatePDF's page ceiling enforced in processPDF too.
Load_WithCeiling(r) ==
  /\ pc[r] = "load"
  /\ IF ~input[r].parses
     THEN /\ \E e \in Thrown : Fail(r, e, "load")
          /\ UNCHANGED <<pages, pageCount>>
     ELSE /\ pages' = [pages EXCEPT ![r] = LoadedPages(input[r])]
          /\ pageCount' = [pageCount EXCEPT ![r] = input[r].pageCount]
          /\ IF input[r].pageCount = 0
             THEN Fail(r, Err("PDF contains no pages"), "empty")
             ELSE IF input[r].pageCount > PageCeiling
             THEN Fail(r, Err("PDF has too many pages (maximum 1000 supported)"), "ceiling")
             ELSE /\ pc' = [pc EXCEPT ![r] = "font"]
                  /\ UNCHANGED <<result, fatal>>
  /\ UNCHANGED <<now, harnessVars, routeVars, procVars, instOf, input, startTime, originalSize,
                 errors, i, attempted, faults>>

\* PDFDocument.load resolves or throws; then getPages and the empty check.
Load(r) ==
  /\ pc[r] = "load"
  /\ IF ~input[r].parses
     THEN /\ \E e \in Thrown : Fail(r, e, "load")
          /\ UNCHANGED <<pages, pageCount>>
     ELSE /\ pages' = [pages EXCEPT ![r] = LoadedPages(input[r])]
          /\ pageCount' = [pageCount EXCEPT ![r] = input[r].pageCount]
          /\ IF input[r].pageCount = 0
             THEN Fail(r, Err("PDF contains no pages"), "empty")
             ELSE /\ pc' = [pc EXCEPT ![r] = "font"]
                  /\ UNCHANGED <<result, fatal>>
  /\ UNCHANGED <<now, harnessVars, routeVars, procVars, instOf, input, startTime, originalSize,
                 errors, i, attempted, faults>>

\* A font embedded into run r's document.
Embedded(name, r) == [name |-> name, doc |-> r]

\* this.font = await pdfDoc.embedFont(StandardFonts.Helvetica), or its catch.
EmbedFont(r) ==
  /\ pc[r] = "font"
  /\ \E ok \in BOOLEAN :
       IF ok
       THEN /\ font' = [font EXCEPT ![instOf[r]] = Embedded("Helvetica", r)]
            /\ pc' = [pc EXCEPT ![r] = "loop"]
            /\ i' = [i EXCEPT ![r] = 0]
       ELSE /\ pc' = [pc EXCEPT ![r] = "fallback"]
            /\ UNCHANGED <<font, i>>
  /\ UNCHANGED <<now, harnessVars, routeVars, options, preset, instOf, input, startTime, originalSize,
                 errors, pages, pageCount, result, attempted, faults, fatal>>

\* this.font = await pdfDoc.embedFont(StandardFonts.Courier), inside the outer try.
EmbedFallback(r) ==
  /\ pc[r] = "fallback"
  /\ \E ok \in BOOLEAN :
       IF ok
       THEN /\ font' = [font EXCEPT ![instOf[r]] = Embedded("Courier", r)]
            /\ pc' = [pc EXCEPT ![r] = "loop"]
            /\ i' = [i EXCEPT ![r] = 0]
            /\ UNCHANGED <<result, fatal>>
       ELSE /\ \E e \in Thrown : Fail(r, e, "font")
            /\ UNCHANGED <<font, i>>
  /\ UNCHANGED <<now, harnessVars, routeVars, options, preset, instOf, input, startTime, originalSize,
                 errors, pages, pageCount, attempted, faults>>

\* A page whose drawing calls replace its content instead of adding to it.
Draw_Replacing(content, drawn) == drawn

\* page.drawRectangle / drawLine / drawText: each call adds its operators
\* after the operators the page already has.
Draw(content, drawn) == content \o drawn

\* One iteration of the page loop: processPage(pages[i], i + 1, pageCount) draws
\* its operations in order; any of them may throw, which ends the transform
\* of this page with the earlier operations drawn (n = all of them: none threw).
ProcessPage(r) ==
  /\ pc[r] = "loop"
  /\ i[r] < pageCount[r]
  /\ LET idx  == i[r]
         page == pages[r][idx + 1]
         ops  == processPage(options[instOf[r]], font[instOf[r]], page.width,
                             page.height, idx + 1, pageCount[r], now)
     IN  \E n \in 0..Len(ops) :
           /\ pages' = [pages EXCEPT ![r][idx + 1].ops = Draw(@, SubSeq(ops, 1, n))]
           /\ IF n < Len(ops)
              THEN \E e \in PageThrown :
                     /\ errors' = [errors EXCEPT ![r] = Append(@, PageErrorMsg(idx, e))]
                     /\ faults' = [faults EXCEPT ![r] = @ \cup {idx + 1}]
              ELSE UNCHANGED <<errors, faults>>
           /\ attempted' = [attempted EXCEPT ![r] = Append(@, idx + 1)]
           /\ i' = [i EXCEPT ![r] = idx + 1]
           /\ pc' = [pc EXCEPT ![r] = IF idx + 1 < pageCount[r] THEN "loop" ELSE "save"]
  /\ UNCHANGED <<now, harnessVars, routeVars, procVars, instOf, input, startTime, originalSize,
                 pageCount, result, fatal>>

\* The iterations of the page loop from the current page up to the last but
\* one, taken together, none of their drawing calls throwing.
ProcessMiddlePages(r) ==
  /\ pc[r] = "loop"
  /\ 0 < i[r]
  /\ i[r] < pageCount[r] - 1
  /\ LET old  == pages[r]
         last == pageCount[r] - 1
         drawn(k) == processPage(options[instOf[r]], font[instOf[r]], old[k].width,
                                 old[k].height, k, pageCount[r], now)
     IN  /\ pages' = [pages EXCEPT ![r] =
                        [k \in DOMAIN old |->
                           IF k > i[r] /\ k <= last
                           THEN [old[k] EXCEPT !.ops = Draw(@, drawn(k))]
                           ELSE old[k]]]
         /\ attempted' = [attempted EXCEPT ![r] =
                            @ \o [j \in 1..(last - i[r]) |-> i[r] + j]]
         /\ i' = [i EXCEPT ![r] = last]
  /\ UNCHANGED <<now, harnessVars, routeVars, procVars, instOf, input, startTime, originalSize,
                 pageCount, result, fatal, errors, faults, pc>>

\* pdfDoc.save(...) resolves with the serialized bytes or throws; then the
\* result is built.  A serialized document is never empty.
Save(r) ==
  /\ pc[r] = "save"
  /\ \E ok \in BOOLEAN :
       IF ok
       THEN \E len \in 1..MaxBytes :
              /\ result' = [result EXCEPT ![r] =
                   SuccessResult([length |-> len, pages |-> pages[r]], pageCount[r],
                                 originalSize[r], startTime[r], errors[r], now)]
              /\ pc' = [pc EXCEPT ![r] = "done"]
              /\ UNCHANGED fatal
       ELSE \E e \in SaveThrown : Fail(r, e, "save")
  /\ UNCHANGED <<now, harnessVars, routeVars, procVars, instOf, input, startTime, originalSize,
                 errors, pages, pageCount, i, attempted, faults>>

\* ---------------------------------------------------------- specification
\* The engine driven directly on one byte stream, as its caller drives it: the
\* bytes are validated, a processor is constructed and processPDF is run on
\* it once, whatever the validation said; validatePDF is called again at any
\* time.  The clock is followed until the run has returned: nothing reads it
\* afterwards.
Next ==
  \/ pc[1] # "done" /\ Tick
  \/ \E e \in Thrown : Validate(upload, e)
  \/ validation # None /\ \E c \in Constructions : Construct(1, c)
  \/ upload \in RunInputs /\ Call(1, 1, upload)
  \/ Load(1)
  \/ EmbedFont(1)
  \/ EmbedFallback(1)
  \/ ProcessPage(1)
  \/ Save(1)

Spec == Init /\ [][Next]_vars

\* ----------------------------------------------------------- POST handler
MAX_FILE_SIZE == 500 * 1024 * 1024
ALLOWED_MIME_TYPES == {"application/pdf"}
\* DEPLOYMENT.md, File Size Limits: "Maximum: 15MB per file".
DOCUMENTED_MAX_FILE_SIZE == 15 * 1024 * 1024

\* The uploads requests carry: bytes that do not parse, small documents, one
\* beyond the page ceiling, one at and one beyond the size limit, and one
\* just beyond the documented maximum.
RouteUploads ==
  {Garbage(0), Garbage(7)} \cup {Document(n) : n \in 0..MaxRoutePages}
  \cup { Document(PageCeiling + 1),
         [parses |-> TRUE, pageCount |-> 1, byteLength |-> DOCUMENTED_MAX_FILE_SIZE + 1],
         [parses |-> TRUE, pageCount |-> 1, byteLength |-> MAX_FILE_SIZE],
         [parses |-> TRUE, pageCount |-> 1, byteLength |-> MAX_FILE_SIZE + 1] }

\* A request: whether its form data can be read, whether it has a "pdf" part,
\* that part's type and bytes, and the "mode" part ("" when absent).
RequestSpace ==
  [ formOk : BOOLEAN, hasFile : BOOLEAN,
    type : {"application/pdf", "text/plain"},
    bytes : RouteUploads,
    mode : {"", "printing", "presentation", "xyz"} ]

\* (formData.get("mode") as string) || "reading"
ModeOf(q) == IF req[q].mode = "" THEN "reading" ELSE req[q].mode

\* What request.formData() throws on a body it cannot read.
RouteThrown == {Err("Invalid PDF structure"), Err("Out of Memory"),
                Err("Request timeout"), Err("pdf-lib error"), NonError}
\* message.includes(needle), for the messages above.
Includes(message, needle) ==
  <<message, needle>> \in { <<"Invalid PDF structure", "Invalid PDF">>,
                            <<"Out of Memory", "Memory">>,
                            <<"Request timeout", "timeout">> }

JsonError(status, error, code) == [status |-> status, error |-> error, code |-> code]

\* The handler's catch block.
CatchResponse(e) ==
  IF e.isError /\ Includes(e.message, "Invalid PDF")
  THEN JsonError(500, "The uploaded file appears to be corrupted or is not a valid PDF.",
                 "INVALID_PDF")
  ELSE IF e.isError /\ Includes(e.message, "Memory")
  THEN JsonError(500, "The PDF is too complex to process. Please try a smaller or simpler PDF.",
                 "MEMORY_ERROR")
  ELSE IF e.isError /\ Includes(e.message, "timeout")
  THEN JsonError(500, "Processing timed out. Please try a smaller PDF.", "TIMEOUT_ERROR")
  ELSE JsonError(500, "An unexpected error occurred while processing the PDF.",
                 "UNKNOWN_ERROR")

Respond(q, r) ==
  /\ resp' = [resp EXCEPT ![q] = r]
  /\ rpc' = [rpc EXCEPT ![q] = "done"]

\* Lines 75-103: the form is read and the file checked, up to the validation.
Receive(q) ==
  /\ rpc[q] = "idle"
  /\ req[q] # None
  /\ IF ~req[q].formOk
     THEN \E e \in RouteThrown : Respond(q, CatchResponse(e))
     ELSE IF ~req[q].hasFile
     THEN Respond(q, JsonError(400, "No PDF file provided", "NO_FILE"))
     ELSE IF req[q].type \notin ALLOWED_MIME_TYPES
     THEN Respond(q, JsonError(400, "Invalid file type. Please upload a PDF file.",
                               "INVALID_TYPE"))
     ELSE IF req[q].bytes.byteLength > MAX_FILE_SIZE
     THEN Respond(q, JsonError(400,
                    "File too large. Maximum size is "
                      \o ToString(MAX_FILE_SIZE \div (1024 * 1024)) \o "MB.",
                    "FILE_TOO_LARGE"))
     ELSE IF req[q].bytes.byteLength = 0
     THEN Respond(q, JsonError(400, "Empty file provided.", "EMPTY_FILE"))
     ELSE /\ rpc' = [rpc EXCEPT ![q] = "validate"]
          /\ UNCHANGED resp
  /\ UNCHANGED <<now, harnessVars, procVars, runVars, req, validationOf, routeStart,
                 inputPath, outputPath, stdout, outputBuffer, pythonResult, files,
                 pyCalls, jsCalls>>

\* Lines 106-114 and 33-39: the validation's answer; when valid, the handler's
\* startTime and the call of processPDFWithPython up to its writeFile.
RouteValidate(q) ==
  /\ rpc[q] = "validate"
  /\ \E e \in Thrown :
       LET v == validatePDF(req[q].bytes, e)
       IN  /\ validationOf' = [validationOf EXCEPT ![q] = v]
           /\ IF ~v.valid
              THEN /\ Respond(q, JsonError(400, v.error, "INVALID_PDF"))
                   /\ UNCHANGED <<routeStart, inputPath, outputPath, pyCalls>>
              ELSE /\ routeStart' = [routeStart EXCEPT ![q] = now]
                   /\ pyCalls' = [pyCalls EXCEPT ![q] = @ + 1]
                   /\ inputPath' = [inputPath EXCEPT ![q] = InputPathAt(now)]
                   /\ outputPath' = [outputPath EXCEPT ![q] = OutputPathAt(now)]
                   /\ rpc' = [rpc EXCEPT ![q] = "pyWrite"]
                   /\ UNCHANGED resp
  /\ UNCHANGED <<now, harnessVars, procVars, runVars, req, stdout, outputBuffer,
                 pythonResult, files, jsCalls>>

\* processPDFWithPython's catch block.
PyFail(q, e) ==
  /\ pythonResult' = [pythonResult EXCEPT ![q] =
       [success |-> FALSE,
        error |-> IF e.isError THEN e.message ELSE "Unknown Python processing error"]]
  /\ rpc' = [rpc EXCEPT ![q] = "pyDone"]

\* What the script leaves in the output file for an input file's content.
Inverted(content) ==
  [parses |-> content.parses, pageCount |-> content.pageCount,
   byteLength |-> content.byteLength + 1, invertedFrom |-> content]

\* await fs.writeFile(inputPath, ...): the file is written, or the write throws
\* and may leave the file behind.
PyWrite(q) ==
  /\ rpc[q] = "pyWrite"
  /\ \E ok \in BOOLEAN :
       IF ok
       THEN /\ files' = [files EXCEPT ![inputPath[q]] = req[q].bytes]
            /\ rpc' = [rpc EXCEPT ![q] = "pyExec"]
            /\ UNCHANGED pythonResult
       ELSE /\ \E left \in BOOLEAN :
                 files' = IF left THEN [files EXCEPT ![inputPath[q]] = Garbage(0)]
                          ELSE files
            /\ \E e \in Thrown : PyFail(q, e)
  /\ UNCHANGED <<now, harnessVars, procVars, runVars, req, resp, validationOf,
                 routeStart, inputPath, outputPath, stdout, outputBuffer, pyCalls,
                 jsCalls>>

\* await execAsync(command): the script exits 0 or the promise rejects; either
\* way it may have written the output file from the input file it found, and
\* on success it may have printed the page-count line.
PyExec(q) ==
  /\ rpc[q] = "pyExec"
  /\ \E ok \in BOOLEAN, wrote \in BOOLEAN, reported \in BOOLEAN :
       LET content == files[inputPath[q]]
       IN  /\ files' = IF wrote /\ content # None
                       THEN [files EXCEPT ![outputPath[q]] = Inverted(content)]
                       ELSE files
           /\ IF ok /\ content # None
              THEN /\ stdout' = [stdout EXCEPT ![q] =
                        [converted |-> IF reported THEN content.pageCount ELSE 0,
                         matches |-> reported]]
                   /\ rpc' = [rpc EXCEPT ![q] = "pyRead"]
                   /\ UNCHANGED pythonResult
              ELSE /\ reported = FALSE
                   /\ \E e \in Thrown : PyFail(q, e)
                   /\ UNCHANGED stdout
  /\ UNCHANGED <<now, harnessVars, procVars, runVars, req, resp, validationOf,
                 routeStart, inputPath, outputPath, outputBuffer, pyCalls, jsCalls>>

\* await fs.readFile(outputPath)
PyRead(q) ==
  /\ rpc[q] = "pyRead"
  /\ IF files[outputPath[q]] = None
     THEN /\ PyFail(q, Err("ENOENT: no such file or directory"))
          /\ UNCHANGED outputBuffer
     ELSE /\ outputBuffer' = [outputBuffer EXCEPT ![q] = files[outputPath[q]]]
          /\ rpc' = [rpc EXCEPT ![q] = "pyUnlinkIn"]
          /\ UNCHANGED pythonResult
  /\ UNCHANGED <<now, harnessVars, procVars, runVars, req, resp, validationOf,
                 routeStart, inputPath, outputPath, stdout, files, pyCalls, jsCalls>>

\* await fs.unlink(inputPath).catch(() => {})
PyUnlinkInput(q) ==
  /\ rpc[q] = "pyUnlinkIn"
  /\ \E ok \in BOOLEAN :
       files' = IF ok THEN [files EXCEPT ![inputPath[q]] = None] ELSE files
  /\ rpc' = [rpc EXCEPT ![q] = "pyUnlinkOut"]
  /\ UNCHANGED <<now, harnessVars, procVars, runVars, req, resp, validationOf,
                 routeStart, inputPath, outputPath, stdout, outputBuffer,
                 pythonResult, pyCalls, jsCalls>>

\* await fs.unlink(outputPath).catch(() => {}), then lines 58-62.
PyUnlinkOutput(q) ==
  /\ rpc[q] = "pyUnlinkOut"
  /\ \E ok \in BOOLEAN :
       files' = IF ok THEN [files EXCEPT ![outputPath[q]] = None] ELSE files
  /\ pythonResult' = [pythonResult EXCEPT ![q] =
       [success |-> TRUE, outputBuffer |-> outputBuffer[q],
        pageCount |-> IF stdout[q].matches THEN stdout[q].converted ELSE 0]]
  /\ rpc' = [rpc EXCEPT ![q] = "pyDone"]
  /\ UNCHANGED <<now, harnessVars, procVars, runVars, req, resp, validationOf,
                 routeStart, inputPath, outputPath, stdout, outputBuffer, pyCalls,
                 jsCalls>>

\* a || b || 0 on page counts
OrElse(a, b) == IF a # 0 THEN a ELSE b

\* The 200 response of the Python path: lines 156-179.
PythonResponse(q) ==
  [ status |-> 200,
    body |-> pythonResult[q].outputBuffer,
    ContentLength     |-> ToString(pythonResult[q].outputBuffer.byteLength),
    XOriginalSize     |-> ToString(req[q].bytes.byteLength),
    XOutputSize       |-> ToString(pythonResult[q].outputBuffer.byteLength),
    XPagesProcessed   |-> ToString(OrElse(pythonResult[q].pageCount,
                                          validationOf[q].pageCount)),
    XProcessingTime   |-> ToString(now - routeStart[q]),
    XProcessingErrors |-> "0" ]

\* The fallback's 200 response with the error count header fixed at "0", as
\* the Python path has it.
JsResponse_NoErrorCount(jsResult) ==
  [ status |-> 200,
    body |-> jsResult.pdfBytes,
    ContentLength     |-> ToString(jsResult.processedSize),
    XOriginalSize     |-> ToString(jsResult.originalSize),
    XOutputSize       |-> ToString(jsResult.processedSize),
    XPagesProcessed   |-> ToString(jsResult.pageCount),
    XProcessingTime   |-> ToString(jsResult.processingTime),
    XProcessingErrors |-> "0" ]

\* The 200 response of the JavaScript fallback: lines 132-153.
JsResponse(jsResult) ==
  [ status |-> 200,
    body |-> jsResult.pdfBytes,
    ContentLength     |-> ToString(jsResult.processedSize),
    XOriginalSize     |-> ToString(jsResult.originalSize),
    XOutputSize       |-> ToString(jsResult.processedSize),
    XPagesProcessed   |-> ToString(jsResult.pageCount),
    XProcessingTime   |-> ToString(jsResult.processingTime),
    XProcessingErrors |-> IF "errors" \in DOMAIN jsResult
                          THEN ToString(Len(jsResult.errors)) ELSE "0" ]

\* Lines 116-122 and 156-179: processPDFWithPython has returned.  On failure
\* the preset is resolved, a processor constructed and processPDF called on
\* it; on success the response is sent.
AfterPython(q) ==
  /\ rpc[q] = "pyDone"
  /\ IF ~pythonResult[q].success
     THEN /\ pc[q] = "idle"
          /\ options' = [options EXCEPT ![q] = Constructor(getPresetOptions(ModeOf(q)))]
          /\ font' = [font EXCEPT ![q] = None]
          /\ preset' = [preset EXCEPT ![q] = ModeOf(q)]
          /\ pc' = [pc EXCEPT ![q] = "load"]
          /\ instOf' = [instOf EXCEPT ![q] = q]
          /\ input' = [input EXCEPT ![q] = req[q].bytes]
          /\ startTime' = [startTime EXCEPT ![q] = now]
          /\ originalSize' = [originalSize EXCEPT ![q] = req[q].bytes.byteLength]
          /\ errors' = [errors EXCEPT ![q] = <<>>]
          /\ jsCalls' = [jsCalls EXCEPT ![q] = @ + 1]
          /\ rpc' = [rpc EXCEPT ![q] = "js"]
          /\ UNCHANGED resp
     ELSE /\ Respond(q, PythonResponse(q))
          /\ UNCHANGED <<procVars, pc, instOf, input, startTime, originalSize, errors,
                         jsCalls>>
  /\ UNCHANGED <<now, harnessVars, pages, pageCount, i, result, attempted, faults,
                 fatal, req, validationOf, routeStart, inputPath, outputPath, stdout,
                 outputBuffer, pythonResult, files, pyCalls>>

\* Lines 124-153: processPDF has returned to the handler.
AfterJs(q) ==
  /\ rpc[q] = "js"
  /\ pc[q] = "done"
  /\ IF ~result[q].success
     THEN Respond(q, [status |-> 500, error |-> "Failed to process PDF",
                      details |-> result[q].errors, code |-> "PROCESSING_ERROR"])
     ELSE Respond(q, JsResponse(result[q]))
  /\ UNCHANGED <<now, harnessVars, procVars, runVars, req, validationOf, routeStart,
                 inputPath, outputPath, stdout, outputBuffer, pythonResult, files,
                 pyCalls, jsCalls>>

\* One request handled by POST, its fallback run included.
RouteInit ==
  /\ AtRest
  /\ upload = Garbage(0)
  /\ req \in [Requests -> RequestSpace \cup {None}]
  /\ req[1] # None
  /\ req[2] = None

RouteNext ==
  \/ rpc[1] # "done" /\ Tick
  \/ Receive(1)
  \/ RouteValidate(1)
  \/ PyWrite(1)
  \/ PyExec(1)
  \/ PyRead(1)
  \/ PyUnlinkInput(1)
  \/ PyUnlinkOutput(1)
  \/ AfterPython(1)
  \/ Load(1)
  \/ EmbedFont(1)
  \/ EmbedFallback(1)
  \/ ProcessPage(1)
  \/ Save(1)
  \/ AfterJs(1)

SpecRoute == RouteInit /\ [][RouteNext]_vars

\* Two requests handled by POST at the same time, their steps interleaving at
\* the awaits: each a well-formed upload of its own one-page document.  The
\* clock is followed until both have chosen their temporary paths, and in the
\* fallback no drawing call fails.
ConcurrentInit ==
  /\ AtRest
  /\ upload = Garbage(0)
  /\ req = [q \in Requests |->
              [ formOk |-> TRUE, hasFile |-> TRUE, type |-> "application/pdf",
                bytes |-> IF q = 1 THEN Document(1) ELSE SizedDocument(100, 70),
                mode |-> "printing" ]]

ConcurrentNext ==
  \/ (\E q \in Requests : rpc[q] \in {"idle", "validate"}) /\ Tick
  \/ \E q \in Requests : Receive(q)
  \/ \E q \in Requests : RouteValidate(q)
  \/ \E q \in Requests : PyWrite(q)
  \/ \E q \in Requests : PyExec(q)
  \/ \E q \in Requests : PyRead(q)
  \/ \E q \in Requests : PyUnlinkInput(q)
  \/ \E q \in Requests : PyUnlinkOutput(q)
  \/ \E q \in Requests : AfterPython(q)
  \/ \E q \in Requests : Load(q)
  \/ \E q \in Requests : EmbedFont(q)
  \/ \E q \in Requests : EmbedFallback(q)
  \/ \E q \in Requests : ProcessPage(q) /\ faults'[q] = {}
  \/ \E q \in Requests : Save(q)
  \/ \E q \in Requests : AfterJs(q)

SpecConcurrent == ConcurrentInit /\ [][ConcurrentNext]_vars

\* Two calls of processPDF whose steps interleave at their awaits: each on a
\* one-page document, on the same processor or on two.  Within one call the
\* drawing of a page is synchronous, so a page is one step.
SharedConstructions ==
  { c \in Constructions :
      c.mode = "-" /\ c.opts.inversionMode = "overlay" }

SharedInit ==
  /\ AtRest
  /\ upload = Document(1)
  /\ req = [q \in Requests |-> None]

SharedNext ==
  \/ (\E r \in Runs : pc[r] # "done") /\ Tick
  \/ \E p \in Instances, c \in SharedConstructions : Construct(p, c)
  \/ \E r \in Runs, p \in Instances : Call(r, p, upload)
  \/ \E r \in Runs : Load(r)
  \/ \E r \in Runs : EmbedFont(r)
  \/ \E r \in Runs : EmbedFallback(r)
  \/ \E r \in Runs : ProcessPage(r)
  \/ \E r \in Runs : Save(r)

SpecShared == SharedInit /\ [][SharedNext]_vars

\* processPDF run on a one-page document, for pages of several sizes and every
\* construction: what one transform draws on a page.
PageSizes == { <<40, 30>>, <<100, 70>>, <<595, 842>> }

PageInit ==
  /\ AtRest
  /\ upload \in { SizedDocument(sz[1], sz[2]) : sz \in PageSizes }
  /\ req = [q \in Requests |-> None]

PageNext ==
  \/ pc[1] # "done" /\ Tick
  \/ \E c \in Constructions : Construct(1, c)
  \/ Call(1, 1, upload)
  \/ Load(1)
  \/ EmbedFont(1)
  \/ EmbedFallback(1)
  \/ ProcessPage(1)
  \/ Save(1)

SpecPage == PageInit /\ [][PageNext]_vars

\* processPDF run on a document one page beyond validatePDF's ceiling, by a
\* processor with the printing preset.  The first and the last page are
\* single steps in which a drawing call may fail; the pages between them are
\* transformed in one step.  The clock stands still.
LargeInit ==
  /\ AtRest
  /\ upload = Document(PageCeiling + 1)
  /\ req = [q \in Requests |-> None]

LargeNext ==
  \/ \E e \in Thrown : Validate(upload, e)
  \/ /\ validation # None
     /\ \E c \in Constructions : c.mode = "printing" /\ Construct(1, c)
  \/ Call(1, 1, upload)
  \/ Load(1)
  \/ EmbedFont(1)
  \/ EmbedFallback(1)
  \/ (i[1] = 0 \/ i[1] = pageCount[1] - 1) /\ ProcessPage(1)
  \/ ProcessMiddlePages(1)
  \/ Save(1)

SpecLarge == LargeInit /\ [][LargeNext]_vars

\* ------------------------------------------------------------------ claims
\* The run has returned from the success path (save resolved).
Returned(r) == pc[r] = "done" /\ fatal[r] = "no"
\* The run has returned from the catch block.
Failed(r) == pc[r] = "done" /\ fatal[r] # "no"
\* The sequence 1, 2, ..., n.
UpTo(n) == [k \in 1..n |-> k]

\* C1: for a document that parses with N pages, validatePDF returns
\* {valid: true, pageCount: N} exactly when 1 <= N <= 1000; for N = 0 it returns
\* valid: false with 'PDF contains no pages'; for N > 1000 it returns
\* valid: false with the too-many-pages error.
C1_ValidatePageCeiling ==
  (validation # None /\ validation.input.parses) =>
    LET N   == validation.input.pageCount
        res == validation.result
    IN  /\ (1 <= N /\ N <= 1000) <=> res.valid
        /\ res.valid => res = [valid |-> TRUE, pageCount |-> N]
        /\ N = 0 => res = [valid |-> FALSE, error |-> "PDF contains no pages"]
        /\ N > 1000 =>
             res = [valid |-> FALSE,
                    error |-> "PDF has too many pages (maximum 1000 supported)"]

\* C1 witness: a document of exactly 1000 pages has been validated and accepted.
C1_Witness ==
  /\ validation # None
  /\ validation.input.parses
  /\ validation.input.pageCount = 1000
  /\ validation.result = [valid |-> TRUE, pageCount |-> 1000]

\* C2: a run on a document of N >= 1 pages whose serialization has completed
\* returns success: true, pageCount N, pdfBytes, and processedSize > 0 equal to
\* the length of pdfBytes, however many pages failed to transform.
C2_SuccessResult ==
  \A r \in Runs :
    Returned(r) =>
      /\ input[r].parses /\ input[r].pageCount >= 1
      /\ result[r].success = TRUE
      /\ result[r].pageCount = input[r].pageCount
      /\ "pdfBytes" \in DOMAIN result[r]
      /\ result[r].processedSize > 0
      /\ result[r].processedSize = result[r].pdfBytes.length

\* C2 witness: a two-page run has returned after both of its pages failed.
C2_Witness ==
  /\ Returned(1)
  /\ input[1].pageCount = 2
  /\ faults[1] = {1, 2}
  /\ result[1].pageCount = 2

\* C3: page failures do not stop the loop or fail the run.  Once the loop is
\* over every page has been attempted, in order, and every page that did not
\* throw carries its complete transform (it ends with the border); the result
\* returned after save() has success: true and one error per failed page, in
\* ascending page order, each naming the page's 1-based number.
C3_PageFailuresIsolated ==
  \A r \in Runs :
    /\ (pc[r] = "save" \/ Returned(r) \/ (pc[r] = "done" /\ fatal[r] = "save")) =>
         /\ attempted[r] = UpTo(input[r].pageCount)
         /\ \A k \in 1..input[r].pageCount :
              k \notin faults[r] =>
                LET ops == pages[r][k].ops
                IN  /\ ops[Len(ops)].op = "rectangle"
                    /\ "borderWidth" \in DOMAIN ops[Len(ops)]
    /\ Returned(r) =>
         /\ result[r].success = TRUE
         /\ (faults[r] = {}) <=> ("errors" \notin DOMAIN result[r])
         /\ faults[r] # {} =>
              /\ Len(result[r].errors) = Cardinality(faults[r])
              /\ \A k \in faults[r] :
                   result[r].errors[Cardinality({m \in faults[r] : m <= k})]
                     = "Failed to process page " \o ToString(k) \o ": Error: draw failed"

\* C3 witness: page 1 of a two-page document threw, page 2 was still transformed
\* completely, and the run returned with the one error.
C3_Witness ==
  /\ Returned(1)
  /\ input[1].pageCount = 2
  /\ faults[1] = {1}
  /\ Len(pages[1][2].ops) > 1
  /\ result[1].errors = << "Failed to process page 1: Error: draw failed" >>

\* C4: processPDF never lets a failure escape: a run that fails fatally (load,
\* empty document, font, save) ends with a result of success: false,
\* pageCount 0, processedSize 0, no pdfBytes, originalSize the input's byte
\* length and exactly one error, whatever page errors had been collected.
C4_FatalResult ==
  \A r \in Runs :
    /\ pc[r] \in {"idle", "load", "font", "fallback", "loop", "save", "done"}
    /\ pc[r] = "done" => result[r] # None
    /\ fatal[r] # "no" =>
         /\ pc[r] = "done"
         /\ DOMAIN result[r] = {"success", "pageCount", "originalSize",
                                "processedSize", "processingTime", "errors"}
         /\ result[r].success = FALSE
         /\ result[r].pageCount = 0
         /\ result[r].processedSize = 0
         /\ result[r].originalSize = input[r].byteLength
         /\ Len(result[r].errors) = 1

\* C4 witness: save failed after a page error had been collected, and the result
\* carries the one fatal error only.
C4_Witness ==
  /\ Failed(1)
  /\ fatal[1] = "save"
  /\ Len(errors[1]) >= 1
  /\ Len(result[1].errors) = 1

\* C5: when the primary and the fallback font both fail to embed, the run is
\* not failed: every page is still transformed and the result has
\* success: true.
C5_FontFailureNotFatal ==
  \A r \in Runs :
    (pc[r] = "done" /\ fatal[r] = "font") =>
      /\ result[r].success = TRUE
      /\ attempted[r] = UpTo(input[r].pageCount)

\* The positions in the operations of page k of run r that hold a page-index
\* label: the size-8 text drawn at the top left (x = 20, y = height - 20).
IndexLabels(r, k) ==
  LET pg == pages[r][k]
  IN  { j \in 1..Len(pg.ops) :
          /\ pg.ops[j].op = "text"
          /\ pg.ops[j].x = 20
          /\ pg.ops[j].y = pg.height - 20 }

\* C6: within a run the pages are transformed in ascending order, each once,
\* and with watermarking on the page at 0-based position i of an N-page input
\* is labelled 'i+1/N': no page ever carries another index label, and every
\* page whose transform ran to its end carries exactly that one.
C6_AscendingOrderAndLabels ==
  \A r \in Runs :
    /\ attempted[r] = UpTo(Len(attempted[r]))
    /\ (pc[r] = "loop" \/ pc[r] = "save") => Len(attempted[r]) = i[r]
    /\ (pc[r] = "save" \/ Returned(r)) => attempted[r] = UpTo(input[r].pageCount)
    /\ \A k \in DOMAIN pages[r] :
         LET labels == IndexLabels(r, k)
         IN  /\ \A j \in labels :
                  pages[r][k].ops[j].text
                    = ToString(k) \o "/" \o ToString(input[r].pageCount)
             /\ Cardinality(labels) <= 1
             /\ labels # {} => options[instOf[r]].addWatermark
             /\ (k <= Len(attempted[r]) /\ k \notin faults[r]
                 /\ options[instOf[r]].addWatermark) => Cardinality(labels) = 1

\* C6 witness: a two-page run with watermarking returned without page errors and
\* its second page carries the label "2/2".
C6_Witness ==
  /\ Returned(1)
  /\ input[1].pageCount = 2
  /\ faults[1] = {}
  /\ attempted[1] = <<1, 2>>
  /\ \E j \in IndexLabels(1, 2) : pages[1][2].ops[j].text = "2/2"

\* C7: the three presets (colours in hundredths): reading (0.15,0.15,0.15) /
\* (0.95,0.95,0.95), watermark on, texture off; printing (0.25,0.25,0.25) /
\* (0.85,0.85,0.85), watermark off, texture off; presentation
\* (0.15,0.15,0.20) / (0.90,0.90,0.95), watermark on, texture on; all three
\* with inversion mode true-inversion.
C7_PresetTable ==
  \A p \in Instances :
    /\ preset[p] = "reading" =>
         /\ options[p].backgroundColor = [r |-> 15, g |-> 15, b |-> 15]
         /\ options[p].textColor = [r |-> 95, g |-> 95, b |-> 95]
         /\ options[p].addWatermark = TRUE
         /\ options[p].gridPattern = FALSE
         /\ options[p].inversionMode = "true-inversion"
    /\ preset[p] = "printing" =>
         /\ options[p].backgroundColor = [r |-> 25, g |-> 25, b |-> 25]
         /\ options[p].textColor = [r |-> 85, g |-> 85, b |-> 85]
         /\ options[p].addWatermark = FALSE
         /\ options[p].gridPattern = FALSE
         /\ options[p].inversionMode = "true-inversion"
    /\ preset[p] = "presentation" =>
         /\ options[p].backgroundColor = [r |-> 15, g |-> 15, b |-> 20]
         /\ options[p].textColor = [r |-> 90, g |-> 90, b |-> 95]
         /\ options[p].addWatermark = TRUE
         /\ options[p].gridPattern = TRUE
         /\ options[p].inversionMode = "true-inversion"

\* C7 witness: a processor holds the printing preset, its watermark off.
C7_Witness ==
  /\ preset[1] = "printing"
  /\ options[1] # None
  /\ options[1].addWatermark = FALSE
  /\ options[1].backgroundColor = [r |-> 25, g |-> 25, b |-> 25]

\* C8: for a mode name other than 'reading', 'printing' and 'presentation',
\* getPresetOptions returns the default preset (true-inversion, background
\* (0.2,0.2,0.2), text (0.9,0.9,0.9), watermark on, texture off), the option
\* set of a processor constructed with no options.
C8_UnknownModeDefault ==
  \A p \in Instances :
    preset[p] \notin {"-", "reading", "printing", "presentation"} =>
      /\ options[p] # None
      /\ options[p].inversionMode = "true-inversion"
      /\ options[p].backgroundColor = [r |-> 20, g |-> 20, b |-> 20]
      /\ options[p].textColor = [r |-> 90, g |-> 90, b |-> 90]
      /\ options[p].addWatermark = TRUE
      /\ options[p].gridPattern = FALSE
      /\ options[p] = Constructor(<<>>)

\* C8 witness: a processor was built from the preset of the unknown mode "xyz".
C8_Witness ==
  /\ preset[1] = "xyz"
  /\ options[1] # None
  /\ options[1].backgroundColor = [r |-> 20, g |-> 20, b |-> 20]

\* C9: validatePDF never throws and has no side effect: bytes that do not parse
\* yield exactly {valid: false, error: <non-empty message>}, without a
\* pageCount, and a validatePDF call leaves every processor and every run as
\* it was.
C9_ValidateTotalAndPure ==
  /\ [](validation # None =>
          /\ "valid" \in DOMAIN validation.result
          /\ ~validation.input.parses =>
               /\ DOMAIN validation.result = {"valid", "error"}
               /\ validation.result.valid = FALSE
               /\ validation.result.error # "")
  /\ [][validation' # validation => UNCHANGED <<procVars, runVars>>]_vars

\* C9 witness: bytes that do not parse were validated while pdf-lib threw a
\* value that is no Error, and the fallback message was returned.
C9_Witness ==
  /\ validation # None
  /\ ~validation.input.parses
  /\ validation.result = [valid |-> FALSE, error |-> "Invalid PDF format"]

\* The upload of request q is an input error: empty, unparseable, without
\* pages or with more than 1000 pages.
InputError(q) ==
  /\ req[q] # None
  /\ req[q].formOk
  /\ req[q].hasFile
  /\ \/ req[q].bytes.byteLength = 0
     \/ ~req[q].bytes.parses
     \/ req[q].bytes.pageCount = 0
     \/ req[q].bytes.pageCount > 1000

\* C10: input errors are reported before any processing starts: for an upload
\* that is empty, unparseable or has more than 1000 pages the handler never
\* calls processPDFWithPython or processPDF, and it answers 400.
C10_InputErrorsBeforeProcessing ==
  \A q \in Requests :
    InputError(q) =>
      /\ pyCalls[q] = 0
      /\ jsCalls[q] = 0
      /\ pc[q] = "idle"
      /\ rpc[q] \in {"idle", "validate", "done"}
      /\ rpc[q] = "done" => resp[q].status = 400

\* C10 witness: a well-typed upload of 1001 pages was answered 400 INVALID_PDF
\* with neither path called.
C10_Witness ==
  /\ req[1] # None
  /\ rpc[1] = "done"
  /\ req[1].formOk /\ req[1].hasFile
  /\ req[1].bytes.parses /\ req[1].bytes.pageCount = 1001
  /\ resp[1].status = 400
  /\ resp[1].code = "INVALID_PDF"
  /\ pyCalls[1] = 0 /\ jsCalls[1] = 0

C12_OnlyAppends ==
  \A r \in Runs :
    (input[r] # None /\ input[r].parses /\ pc[r] \notin {"idle", "load"}) =>
      LET orig == LoadedPages(input[r])
          Kept(doc) ==
            /\ Len(doc) = Len(orig)
            /\ \A k \in DOMAIN orig :
                 /\ doc[k].width = orig[k].width
                 /\ doc[k].height = orig[k].height
                 /\ Len(doc[k].ops) >= Len(orig[k].ops)
                 /\ SubSeq(doc[k].ops, 1, Len(orig[k].ops)) = orig[k].ops
                 /\ \A j \in (Len(orig[k].ops) + 1)..Len(doc[k].ops) :
                      doc[k].ops[j].op \in {"rectangle", "line", "text"}
      IN  /\ Kept(pages[r])
          /\ Returned(r) => Kept(result[r].pdfBytes.pages)

\* C12 witness: a two-page run returned whose first page failed after some
\* of its operations were drawn and whose second page was fully transformed.
C12_Witness ==
  /\ Returned(1)
  /\ input[1].pageCount = 2
  /\ faults[1] = {1}
  /\ Len(pages[1][1].ops) > 2
  /\ Len(result[1].pdfBytes.pages[2].ops) > Len(pages[1][1].ops)

\* C13: in the POST handler the JavaScript engine runs only after the Python
\* path has reported failure; a validated upload is answered 500
\* PROCESSING_ERROR exactly when the Python path and the JavaScript engine
\* both failed, and otherwise 200 with X-Processing-Errors the number of
\* per-page errors of the path that produced the output (the Python path
\* reports none).
C13_FallbackAndStatus ==
  \A q \in Requests :
    /\ jsCalls[q] > 0 => (pythonResult[q] # None /\ ~pythonResult[q].success)
    /\ (rpc[q] = "done" /\ validationOf[q] # None /\ validationOf[q].valid) =>
         IF ~pythonResult[q].success /\ Failed(q)
         THEN /\ resp[q].status = 500
              /\ resp[q].code = "PROCESSING_ERROR"
         ELSE /\ resp[q].status = 200
              /\ IF pythonResult[q].success
                 THEN /\ jsCalls[q] = 0
                      /\ resp[q].XProcessingErrors = "0"
                 ELSE /\ jsCalls[q] = 1
                      /\ Returned(q)
                      /\ resp[q].XProcessingErrors = ToString(Len(errors[q]))

\* C13 witness: the Python path failed, the fallback transformed the upload
\* with one page error, and the answer is 200 with X-Processing-Errors "1".
C13_Witness ==
  /\ rpc[1] = "done"
  /\ pythonResult[1] # None /\ ~pythonResult[1].success
  /\ Returned(1)
  /\ Len(errors[1]) = 1
  /\ resp[1].status = 200
  /\ resp[1].XProcessingErrors = "1"

\* C14: an upload larger than the documented maximum of 15MB per file is
\* rejected by the POST handler with 400 FILE_TOO_LARGE before the file is
\* parsed or processed.
C14_DocumentedSizeLimit ==
  \A q \in Requests :
    ( /\ req[q] # None
      /\ req[q].formOk /\ req[q].hasFile
      /\ req[q].type \in ALLOWED_MIME_TYPES
      /\ req[q].bytes.byteLength > DOCUMENTED_MAX_FILE_SIZE ) =>
        /\ validationOf[q] = None
        /\ pyCalls[q] = 0 /\ jsCalls[q] = 0
        /\ rpc[q] = "done" => (resp[q].status = 400 /\ resp[q].code = "FILE_TOO_LARGE")

\* C15: processPDF does not enforce the 1000-page ceiling: on a parseable
\* document of more than 1000 pages, which validatePDF rejects, the run never
\* fails at the load, every page is attempted, and when the document is saved
\* the result has success: true and pageCount the real page count.
C15_NoCeilingInProcessPDF ==
  \A r \in Runs :
    (pc[r] = "done" /\ input[r].parses /\ input[r].pageCount > PageCeiling) =>
      /\ ~validatePDF(input[r], NonError).valid
      /\ fatal[r] \in {"no", "font", "save"}
      /\ fatal[r] # "font" => attempted[r] = UpTo(input[r].pageCount)
      /\ Returned(r) =>
           /\ result[r].success = TRUE
           /\ result[r].pageCount = input[r].pageCount
           /\ Len(result[r].pdfBytes.pages) = input[r].pageCount

\* C15 witness: a 1001-page document that validatePDF refused was processed
\* to the end, its last page transformed, and returned with pageCount 1001.
C15_Witness ==
  /\ Returned(1)
  /\ validation # None /\ ~validation.result.valid
  /\ input[1].pageCount = PageCeiling + 1
  /\ result[1].pageCount = PageCeiling + 1
  /\ PageCeiling + 1 \notin faults[1]
  /\ Len(result[1].pdfBytes.pages[PageCeiling + 1].ops) > 1

\* Arithmetic on exact fractions (positive denominators).
FracAdd(a, b) == Frac(a[1] * b[2] + b[1] * a[2], a[2] * b[2])
FracLe(a, b) == a[1] * b[2] <= b[1] * a[2]
Whole(n) == Frac(n, 1)

\* The filled rectangles among the operations of a page, in drawing order
\* (the border is a rectangle with a borderColor and no color).
IsFill(o) == o.op = "rectangle" /\ "color" \in DOMAIN o
Fills(pg) == SelectSeq(pg.ops, IsFill)
\* Page k of run r has been transformed to the end by a processor in `mode`.
Transformed(r, k, mode) ==
  /\ pc[r] \in {"loop", "save", "done"}
  /\ k \in DOMAIN pages[r]
  /\ k <= i[r]
  /\ k \notin faults[r]
  /\ options[instOf[r]].inversionMode = mode

\* What C16 says of the bands whatever their direction: exactly 6 filled
\* rectangles of the run's backgroundColor, each as wide as the page and one
\* sixth of its height, band i with opacity 0.75 + (i/6) * 0.20, tiling the
\* page from edge to edge: each band starts where the one before it ends.
SixBands(r, k) ==
  LET pg == pages[r][k]
      f  == Fills(pg)
  IN  /\ Len(f) = 6
      /\ \A b \in 1..6 :
           /\ f[b].x = 0
           /\ f[b].width = pg.width
           /\ FracEq(f[b].height, Frac(pg.height, 6))
           /\ f[b].color = rgbOf(options[instOf[r]].backgroundColor)
           /\ FracEq(f[b].opacity, FracAdd(Frac(75, 100), Frac((b - 1) * 20, 6 * 100)))
      /\ \E bottom, top \in 1..6 :
           /\ FracEq(f[bottom].y, Whole(0))
           /\ FracEq(FracAdd(f[top].y, f[top].height), Whole(pg.height))
      /\ \A b \in 1..6 :
           \/ FracEq(FracAdd(f[b].y, f[b].height), Whole(pg.height))
           \/ \E c \in 1..6 : FracEq(FracAdd(f[b].y, f[b].height), f[c].y)

\* C16 as claimed: in advanced mode each page receives exactly 6 equal-height
\* bands tiling the page, band i having opacity 0.75 + (i/6)*0.20, the 0.75
\* band being the top band of the page and the most opaque the bottom band.
\* (A page's y axis points up: the top band is the one ending at the page
\* height, the bottom band the one starting at 0.)
C16_BandsTopDown ==
  \A r \in Runs : \A k \in DOMAIN pages[r] :
    Transformed(r, k, "advanced") =>
      /\ SixBands(r, k)
      /\ FracEq(FracAdd(Fills(pages[r][k])[1].y, Fills(pages[r][k])[1].height),
                Whole(pages[r][k].height))
      /\ FracEq(Fills(pages[r][k])[6].y, Whole(0))

\* C16 amended: in advanced mode each page receives exactly 6 equal-height
\* bands tiling the page, band i having opacity 0.75 + (i/6)*0.20; the 0.75
\* band is the bottom band of the page (it starts at y = 0) and the opacity
\* rises to 0.75 + (5/6)*0.20, about 0.917, on the top band.
C16_BandsBottomUp ==
  \A r \in Runs : \A k \in DOMAIN pages[r] :
    Transformed(r, k, "advanced") =>
      /\ SixBands(r, k)
      /\ \A b \in 1..6 :
           FracEq(Fills(pages[r][k])[b].y, Frac((b - 1) * pages[r][k].height, 6))
      /\ FracEq(Fills(pages[r][k])[1].opacity, Frac(75, 100))
      /\ FracEq(Fills(pages[r][k])[6].opacity, Frac(11, 12))

\* C16 witness: a page 842 units high, not a multiple of 6, was transformed in
\* advanced mode and the document saved.
C16_Witness ==
  /\ Returned(1)
  /\ Transformed(1, 1, "advanced")
  /\ pages[1][1].height = 842
  /\ Len(Fills(result[1].pdfBytes.pages[1])) = 6

\* Rectangle a ends where b starts or before it, along x and along y.
LeftOf(a, b) == FracLe(FracAdd(a.x, a.width), b.x)
Below(a, b) == FracLe(FracAdd(a.y, a.height), b.y)
Disjoint(a, b) == LeftOf(a, b) \/ LeftOf(b, a) \/ Below(a, b) \/ Below(b, a)
InsidePage(a, pg) ==
  /\ FracLe(Whole(0), a.x) /\ FracLe(FracAdd(a.x, a.width), Whole(pg.width))
  /\ FracLe(Whole(0), a.y) /\ FracLe(FracAdd(a.y, a.height), Whole(pg.height))

\* What C17 says of the rectangles wherever they lie: one full-page
\* backgroundColor rectangle at opacity 0.7, then exactly 3 white rectangles
\* at opacity 0.15: one of 80% of the width and 30% of the height, two of 40%
\* of the width and 40% of the height, left and right; all three inside the
\* page and disjoint.
ImageWindows(r, k) ==
  LET pg == pages[r][k]
      f  == Fills(pg)
  IN  /\ Len(f) = 4
      /\ f[1] = drawRectangle(0, 0, pg.width, pg.height,
                              rgbOf(options[instOf[r]].backgroundColor), Frac(7, 10))
      /\ \A w \in 2..4 :
           /\ f[w].color = rgb(One, One, One)
           /\ FracEq(f[w].opacity, Frac(15, 100))
           /\ InsidePage(f[w], pg)
      /\ FracEq(f[2].width, Frac(80 * pg.width, 100))
      /\ FracEq(f[2].height, Frac(30 * pg.height, 100))
      /\ \A w \in 3..4 :
           /\ FracEq(f[w].width, Frac(40 * pg.width, 100))
           /\ FracEq(f[w].height, Frac(40 * pg.height, 100))
      /\ LeftOf(f[3], f[4])
      /\ Disjoint(f[2], f[3]) /\ Disjoint(f[2], f[4]) /\ Disjoint(f[3], f[4])

\* C17 as claimed: in preserve-images mode each page receives the full-page
\* rectangle and the 3 white rectangles, the wide one in the lower part of
\* the page and the two narrow ones in the upper part, above it.
C17_WideWindowBelow ==
  \A r \in Runs : \A k \in DOMAIN pages[r] :
    Transformed(r, k, "preserve-images") =>
      /\ ImageWindows(r, k)
      /\ Below(Fills(pages[r][k])[2], Fills(pages[r][k])[3])
      /\ Below(Fills(pages[r][k])[2], Fills(pages[r][k])[4])

\* C17 amended: in preserve-images mode each page receives the full-page
\* rectangle and the 3 white rectangles; the wide one lies in the upper part
\* of the page (from 0.6 to 0.9 of the height above the bottom edge) and the
\* two narrow ones, left and right, below it (from 0.1 to 0.5 of the height).
C17_WideWindowAbove ==
  \A r \in Runs : \A k \in DOMAIN pages[r] :
    Transformed(r, k, "preserve-images") =>
      LET pg == pages[r][k]
          f  == Fills(pg)
      IN  /\ ImageWindows(r, k)
          /\ FracEq(f[2].y, Frac(60 * pg.height, 100))
          /\ FracEq(f[3].y, Frac(10 * pg.height, 100))
          /\ FracEq(f[4].y, Frac(10 * pg.height, 100))
          /\ Below(f[3], f[2]) /\ Below(f[4], f[2])

\* C17 witness: a page was transformed in preserve-images mode to its end and
\* carries the four filled rectangles.
C17_Witness ==
  /\ Returned(1)
  /\ Transformed(1, 1, "preserve-images")
  /\ pages[1][1].width = 595
  /\ Len(Fills(result[1].pdfBytes.pages[1])) = 4

\* Fill j of a page is the full-page rectangle of the grey level n/d (white is
\* 1/1) at the opacity given.
FullPageGrey(pg, f, n, d, opacity) ==
  /\ f.x = 0 /\ f.y = 0
  /\ f.width = pg.width /\ f.height = pg.height
  /\ \A c \in 1..3 : FracEq(f.color[c], Frac(n, d))
  /\ FracEq(f.opacity, opacity)

\* C18: in true-inversion mode each page receives exactly three full-page
\* rectangles in this order: white at opacity 1.0, 50% grey at opacity 1.0,
\* white at opacity 0.5, whatever the run's backgroundColor and preset; a
\* transform that failed part-way has drawn the first of them only.
C18_TrueInversionFills ==
  \A r \in Runs : \A k \in DOMAIN pages[r] :
    (pc[r] \in {"loop", "save", "done"}
       /\ options[instOf[r]].inversionMode = "true-inversion") =>
      LET pg == pages[r][k]
          f  == Fills(pg)
      IN  /\ Len(f) <= 3
          /\ Transformed(r, k, "true-inversion") => Len(f) = 3
          /\ Len(f) >= 1 => FullPageGrey(pg, f[1], 1, 1, Frac(1, 1))
          /\ Len(f) >= 2 => FullPageGrey(pg, f[2], 1, 2, Frac(1, 1))
          /\ Len(f) >= 3 => FullPageGrey(pg, f[3], 1, 1, Frac(1, 2))

\* C18 witness: a processor with the presentation preset, whose background is
\* bluish, transformed a page and the page carries the three fills.
C18_Witness ==
  /\ Returned(1)
  /\ preset[1] = "presentation"
  /\ options[1].backgroundColor = RGBh(15, 15, 20)
  /\ Transformed(1, 1, "true-inversion")
  /\ Len(Fills(pages[1][1])) = 3

\* The decorations among the operations of a page: the border and the texts.
IsBorder(o) == o.op = "rectangle" /\ "borderColor" \in DOMAIN o
IsText(o) == o.op = "text"
Borders(pg) == SelectSeq(pg.ops, IsBorder)
Texts(pg) == SelectSeq(pg.ops, IsText)

\* C19: on every page that processPDF transforms, the border rectangle (inset
\* 2 units, width 0.5) is drawn whether addWatermark is true or false, and
\* the three text labels ('DARK MODE', page index, timestamp) are drawn if and
\* only if addWatermark is true.
C19_BorderAlwaysLabelsIfWatermark ==
  \A r \in Runs : \A k \in DOMAIN pages[r] :
    (pc[r] \in {"loop", "save", "done"}) =>
      LET pg == pages[r][k]
          b  == Borders(pg)
          t  == Texts(pg)
          wm == options[instOf[r]].addWatermark
      IN  /\ ~wm => Len(t) = 0
          /\ (k <= i[r] /\ k \notin faults[r]) =>
               /\ Len(b) = 1
               /\ b[1].x = 2 /\ b[1].y = 2
               /\ b[1].width = pg.width - 4 /\ b[1].height = pg.height - 4
               /\ FracEq(b[1].borderWidth, Frac(1, 2))
               /\ Len(t) = IF wm THEN 3 ELSE 0
               /\ wm => /\ t[1].text = "DARK MODE"
                         /\ t[2].text = PageLabel(k, pageCount[r])
                         /\ \E at \in 0..MaxTime : t[3].text = StampLabel(at)

\* C19 witness: a processor with addWatermark off (the printing preset)
\* transformed a page: it carries the border and no label.
C19_Witness ==
  /\ Returned(1)
  /\ ~options[1].addWatermark
  /\ 1 \notin faults[1]
  /\ Len(Borders(pages[1][1])) = 1
  /\ Len(Texts(pages[1][1])) = 0

\* C20: for each of the four strategies the decoration step runs once per
\* page and only after all of the strategy's fill and texture operations: on
\* no page does a fill or a texture line come after a label or the border,
\* and a page transformed to the end carries exactly one border.
C20_DecorationsLast ==
  \A r \in Runs : \A k \in DOMAIN pages[r] :
    LET pg == pages[r][k]
    IN  /\ \A a, b \in DOMAIN pg.ops :
             (a < b /\ (IsBorder(pg.ops[a]) \/ IsText(pg.ops[a]))) =>
               (IsBorder(pg.ops[b]) \/ IsText(pg.ops[b]))
        /\ (pc[r] \in {"loop", "save", "done"} /\ k <= i[r] /\ k \notin faults[r]) =>
             /\ Len(Borders(pg)) = 1
             /\ IsBorder(pg.ops[Len(pg.ops)])
             /\ Len(Fills(pg)) >= 1

\* C20 witness: a page was transformed in advanced mode with the texture: it
\* carries fills, texture lines and then the border.
C20_Witness ==
  /\ Returned(1)
  /\ Transformed(1, 1, "advanced")
  /\ options[1].gridPattern
  /\ \E j \in DOMAIN pages[1][1].ops : pages[1][1].ops[j].op = "line"
  /\ IsBorder(pages[1][1].ops[Len(pages[1][1].ops)])

\* C21: with the options getPresetOptions returns for any mode name,
\* 'presentation' with its gridPattern included, processPDF draws no texture
\* line on any page: every preset selects true-inversion and only the
\* advanced strategy draws the texture.
C21_PresetsDrawNoTexture ==
  \A r \in Runs :
    (instOf[r] # 0 /\ preset[instOf[r]] # "-") =>
      /\ options[instOf[r]] = Constructor(getPresetOptions(preset[instOf[r]]))
      /\ options[instOf[r]].inversionMode = "true-inversion"
      /\ \A k \in DOMAIN pages[r] :
           \A j \in DOMAIN pages[r][k].ops : pages[r][k].ops[j].op # "line"

\* C21 witness: a processor built from the presentation preset, gridPattern
\* on, transformed a page to its end and the document was saved.
C21_Witness ==
  /\ Returned(1)
  /\ preset[1] = "presentation"
  /\ options[1].gridPattern
  /\ 1 \notin faults[1]
  /\ Len(Fills(result[1].pdfBytes.pages[1])) = 3

\* C22: whenever processPDFWithPython has returned, with success or with a
\* failure at any step, the temporary input and output files it created no
\* longer exist.
C22_TempFilesRemoved ==
  \A q \in Requests :
    (pythonResult[q] # None /\ rpc[q] \in {"pyDone", "js", "done"}) =>
      /\ files[inputPath[q]] = None
      /\ files[outputPath[q]] = None

\* Request q is inside processPDFWithPython, its paths chosen.
InPython(q) == rpc[q] \in {"pyWrite", "pyExec", "pyRead", "pyUnlinkIn", "pyUnlinkOut"}

\* C23: two POST requests handled concurrently never use the same temporary
\* input or output file path, and the bytes the Python path returns to a
\* request are those made from that request's own upload.
C23_TempPathsDistinct ==
  /\ \A q1, q2 \in Requests :
       (q1 # q2 /\ InPython(q1) /\ InPython(q2)) =>
         /\ inputPath[q1] # inputPath[q2]
         /\ outputPath[q1] # outputPath[q2]
  /\ \A q \in Requests :
       (rpc[q] = "done" /\ pythonResult[q] # None /\ pythonResult[q].success) =>
         resp[q].body.invertedFrom = req[q].bytes

====
